---- MODULE Spec2Model ----
(***************************************************************************)
(* Model of checker.py: the security.txt batch checker.                    *)
(*                                                                         *)
(* Python values are tagged records (ty = "int", "bool", "str", ...), so   *)
(* that isinstance() is something the model computes.  Strings whose       *)
(* content matters (the domains, which go through str.strip) are sequences *)
(* of characters.  Time is counted in ticks, TicksPerDay ticks to the day. *)
(***************************************************************************)
EXTENDS Integers, Sequences, FiniteSets, TLC

(* ---------------------------- bounds ----------------------------------- *)
MaxDomains == 2      \* longest configured domain list
MaxNow == 1          \* latest clock reading of the first datetime.now()
MaxDrift == 1        \* ticks that may pass between the two datetime.now() calls
MaxExpiry == 4       \* latest declared Expires timestamp
TicksPerDay == 2     \* clock resolution: ticks in one day

(* ------------------------ Python values -------------------------------- *)
PyInt(n) == [ty |-> "int", n |-> n, chars |-> <<>>]
PyBool(b) == [ty |-> "bool", n |-> IF b THEN 1 ELSE 0, chars |-> <<>>]
PyStr(cs) == [ty |-> "str", n |-> 0, chars |-> cs]
PyList(xs) == [ty |-> "list", items |-> xs]
PyNotList == [ty |-> "str", items |-> <<>>]

\* isinstance(x, int): bool is a subclass of int
IsInstanceInt(x) == x.ty \in {"int", "bool"}
IsInstanceStr(x) == x.ty = "str"
IsInstanceBool(x) == x.ty = "bool"

IsSpace(c) == c \in {" ", "\t", "\n"}

RECURSIVE lstrip(_)
lstrip(cs) == IF cs # <<>> /\ IsSpace(Head(cs)) THEN lstrip(Tail(cs)) ELSE cs

RECURSIVE rstrip(_)
rstrip(cs) ==
  IF cs # <<>> /\ IsSpace(cs[Len(cs)]) THEN rstrip(SubSeq(cs, 1, Len(cs) - 1)) ELSE cs

\* str.strip()
strip(cs) == rstrip(lstrip(cs))

(* ------------------------ Config (lines 18-37) ------------------------- *)
DefaultMinExpiryDays == 30

NoConfig == [domains |-> <<>>, min_expiry_days |-> PyInt(0), healthcheck_enabled |-> FALSE]

\* Config.__post_init__ with a mutated expiry check (accepts negative values)
Config_post_init_NoNegativeCheck(domains, min_expiry_days, healthcheck_enabled) ==
  IF domains.ty # "list" THEN "'domains' must be a list"
  ELSE IF domains.items = <<>> THEN "'domains' list cannot be empty"
  ELSE IF \E idx \in 1..Len(domains.items) :
            ~IsInstanceStr(domains.items[idx]) \/ strip(domains.items[idx].chars) = <<>>
       THEN "Invalid domain"
  ELSE IF ~IsInstanceInt(min_expiry_days)
       THEN "'min_expiry_days' must be a non-negative integer"
  ELSE IF ~IsInstanceBool(healthcheck_enabled)
       THEN "'healthcheck_enabled' must be a boolean"
  ELSE "ok"

\* Config.__post_init__: "ok", or the message of the ValueError it raises
Config_post_init(domains, min_expiry_days, healthcheck_enabled) ==
  IF domains.ty # "list" THEN "'domains' must be a list"
  ELSE IF domains.items = <<>> THEN "'domains' list cannot be empty"
  ELSE IF \E idx \in 1..Len(domains.items) :
            ~IsInstanceStr(domains.items[idx]) \/ strip(domains.items[idx].chars) = <<>>
       THEN "Invalid domain"
  ELSE IF ~IsInstanceInt(min_expiry_days) \/ min_expiry_days.n < 0
       THEN "'min_expiry_days' must be a non-negative integer"
  ELSE IF ~IsInstanceBool(healthcheck_enabled)
       THEN "'healthcheck_enabled' must be a boolean"
  ELSE "ok"

(* ------------------------ load_config (lines 40-61) -------------------- *)
\* The config file: file.state is "missing", "bad_yaml", "not_dict" or "dict";
\* for a dict, file.keys are the keys present and the other fields their values.
ConfigKeys == {"domains", "min_expiry_days", "healthcheck_enabled"}

\* Config(**data): TypeError for an unknown key or a missing 'domains',
\* defaults for the other missing keys, then __post_init__
ConfigInit(file) ==
  LET med == IF "min_expiry_days" \in file.keys THEN file.min_expiry_days
             ELSE PyInt(DefaultMinExpiryDays)
      hce == IF "healthcheck_enabled" \in file.keys THEN file.healthcheck_enabled
             ELSE PyBool(FALSE)
  IN IF ~(file.keys \subseteq ConfigKeys) THEN [err |-> "TypeError", config |-> NoConfig]
     ELSE IF "domains" \notin file.keys THEN [err |-> "TypeError", config |-> NoConfig]
     ELSE IF Config_post_init(file.domains, med, hce) # "ok"
          THEN [err |-> "ValueError", config |-> NoConfig]
     ELSE [err |-> "none",
           config |-> [domains |-> file.domains.items,
                       min_expiry_days |-> med,
                       healthcheck_enabled |-> (hce.n = 1)]]

\* load_config: either the Config, or sys.exit(1) after the error message
load_config(file) ==
  IF file.state = "missing" THEN [exit |-> TRUE, code |-> 1, config |-> NoConfig]
  ELSE IF file.state = "bad_yaml" THEN [exit |-> TRUE, code |-> 1, config |-> NoConfig]
  ELSE IF file.state = "not_dict" THEN [exit |-> TRUE, code |-> 1, config |-> NoConfig]
  ELSE LET c == ConfigInit(file)
       IN IF c.err # "none" THEN [exit |-> TRUE, code |-> 1, config |-> NoConfig]
          ELSE [exit |-> FALSE, code |-> 0, config |-> c.config]

(* ------------------------ check_domain (lines 64-109) ------------------ *)
\* A finding: an error, recommendation or notification.  line = 0 is None.
\* The message of the expiry finding is its two numbers, days and min.
Finding(code, line) == [code |-> code, line |-> line, days |-> 0, min |-> 0]
BaselineError == Finding("no_contact", 0)
BaselineRecommendation == Finding("long_expiry", 3)
BaselineNotification == Finding("unknown_field", 2)

\* What SecurityTXT(domain) gives: it raises, or it is an object with the three
\* lists and _expires_date: kind "noattr" (no such attribute), "none" (None),
\* "naive" (a datetime without tzinfo) or "date" (an aware datetime at tick t).
ExpiresValues ==
  {[kind |-> k, t |-> 0] : k \in {"noattr", "none", "naive"}}
    \cup {[kind |-> "date", t |-> t] : t \in 0..MaxExpiry}

EngineOutcomes ==
  {[raises |-> TRUE, errors |-> <<>>, recommendations |-> <<>>,
    notifications |-> <<>>, expires |-> [kind |-> "noattr", t |-> 0]]}
  \cup
  {[raises |-> FALSE, errors |-> e, recommendations |-> rn[1],
    notifications |-> rn[2], expires |-> x] :
      e \in {<<>>, <<BaselineError>>},
      rn \in {<< <<>>, <<>> >>, << <<BaselineRecommendation>>, <<BaselineNotification>> >>},
      x \in ExpiresValues}

NoResult ==
  [domain |-> PyStr(<<>>), is_valid |-> FALSE, has_error |-> FALSE, error |-> "",
   errors |-> <<>>, recommendations |-> <<>>, notifications |-> <<>>]

\* timedelta.days: whole days, rounded towards minus infinity
Days(ticks) == ticks \div TicksPerDay

\* line 77 with <= in place of <
ExpiresTooSoon_Inclusive(expires_date, min_expiry_date) == expires_date <= min_expiry_date

\* line 77: s._expires_date < min_expiry_date
ExpiresTooSoon(expires_date, min_expiry_date) == expires_date < min_expiry_date

\* lines 69-91: the guarded section; raised is the exception's message or "none"
try_body(domain, min_expiry_days, s, now1, now2) ==
  IF s.raises THEN [raised |-> "fetch failed", result |-> NoResult]
  ELSE IF s.expires.kind = "naive"
    THEN [raised |-> "can't compare offset-naive and offset-aware datetimes",
          result |-> NoResult]
  ELSE
    LET min_expiry_date == now1 + min_expiry_days.n * TicksPerDay
        days_until_expiry == Days(s.expires.t - now2)
        errors ==
          IF s.expires.kind = "date" /\ ExpiresTooSoon(s.expires.t, min_expiry_date)
          THEN Append(s.errors, [code |-> "expiry_too_soon", line |-> 0,
                                 days |-> days_until_expiry,
                                 min |-> min_expiry_days.n])
          ELSE s.errors
    IN [raised |-> "none",
        result |-> [domain |-> domain,
                    is_valid |-> (Len(errors) = 0),
                    has_error |-> FALSE,
                    error |-> "",
                    errors |-> errors,
                    recommendations |-> s.recommendations,
                    notifications |-> s.notifications]]

\* lines 100-109 returning a result that still counts as valid
except_result_Valid(domain, e) ==
  [domain |-> domain, is_valid |-> TRUE, has_error |-> TRUE, error |-> e,
   errors |-> <<>>, recommendations |-> <<>>, notifications |-> <<>>]

\* lines 100-109: the result built by the except clause
except_result(domain, e) ==
  [domain |-> domain, is_valid |-> FALSE, has_error |-> TRUE, error |-> e,
   errors |-> <<>>, recommendations |-> <<>>, notifications |-> <<>>]

\* check_domain without its except clause: the engine's fault escapes
check_domain_Reraise(domain, min_expiry_days, s, now1, now2, interrupt) ==
  IF interrupt THEN [exc |-> TRUE, result |-> NoResult]
  ELSE LET b == try_body(domain, min_expiry_days, s, now1, now2)
       IN IF b.raised # "none" THEN [exc |-> TRUE, result |-> NoResult]
          ELSE [exc |-> FALSE, result |-> b.result]

\* check_domain.  interrupt: the print of line 66, which is outside the try,
\* fails (or a KeyboardInterrupt arrives): that exception leaves check_domain.
check_domain(domain, min_expiry_days, s, now1, now2, interrupt) ==
  IF interrupt THEN [exc |-> TRUE, result |-> NoResult]
  ELSE LET b == try_body(domain, min_expiry_days, s, now1, now2)
       IN IF b.raised # "none"
          THEN [exc |-> FALSE, result |-> except_result(domain, b.raised)]
          ELSE [exc |-> FALSE, result |-> b.result]

(* ------------------------ reporting (lines 112-173) -------------------- *)
\* print_results: per result the kind of block printed (line 126 or 130-151)
print_results(rs) ==
  [i \in 1..Len(rs) |-> IF rs[i].has_error THEN "general_error" ELSE "findings"]

\* print_summary: the three counts of lines 160-162
print_summary(rs) ==
  LET total == Len(rs)
      valid == Cardinality({i \in 1..Len(rs) : rs[i].is_valid})
  IN [total |-> total, valid |-> valid, invalid |-> total - valid]

\* line 220: any(not result['is_valid'] for result in results)
AnyInvalid(rs) == \E i \in 1..Len(rs) : ~rs[i].is_valid

(* ------------------------ send_healthcheck (lines 176-192) ------------- *)
PyNone == [ty |-> "none", n |-> 0, chars |-> <<>>]

\* truth value of os.getenv's return: None and "" are false
Truthy(x) == ~(x.ty = "none" \/ (x.ty = "str" /\ x.chars = <<>>))

\* what requests.get gives: a response with a status code, or a RequestException
Responses ==
  {[kind |-> "response", status_code |-> c] : c \in {200, 204, 500}}
    \cup {[kind |-> "RequestException", status_code |-> 0]}

\* send_healthcheck whose except clause is missing
send_healthcheck_Propagates(healthcheck_url, resp) ==
  IF ~Truthy(healthcheck_url)
  THEN [exit |-> TRUE, raised |-> FALSE, fired |-> 0, outcome |-> "url_not_set"]
  ELSE IF resp.kind = "RequestException"
  THEN [exit |-> FALSE, raised |-> TRUE, fired |-> 1, outcome |-> "transport_fault"]
  ELSE IF resp.status_code = 200
  THEN [exit |-> FALSE, raised |-> FALSE, fired |-> 1, outcome |-> "success"]
  ELSE [exit |-> FALSE, raised |-> FALSE, fired |-> 1, outcome |-> "bad_status"]

\* send_healthcheck that returns without a request
send_healthcheck_NoRequest(healthcheck_url, resp) ==
  IF ~Truthy(healthcheck_url)
  THEN [exit |-> TRUE, raised |-> FALSE, fired |-> 0, outcome |-> "url_not_set"]
  ELSE [exit |-> FALSE, raised |-> FALSE, fired |-> 0, outcome |-> "success"]

\* send_healthcheck that only warns when the URL is not set
send_healthcheck_NoExit(healthcheck_url, resp) ==
  IF ~Truthy(healthcheck_url)
  THEN [exit |-> FALSE, raised |-> FALSE, fired |-> 0, outcome |-> "url_not_set"]
  ELSE IF resp.kind = "RequestException"
  THEN [exit |-> FALSE, raised |-> FALSE, fired |-> 1, outcome |-> "transport_fault"]
  ELSE IF resp.status_code = 200
  THEN [exit |-> FALSE, raised |-> FALSE, fired |-> 1, outcome |-> "success"]
  ELSE [exit |-> FALSE, raised |-> FALSE, fired |-> 1, outcome |-> "bad_status"]

\* send_healthcheck: exit = sys.exit(1) of line 182, fired = requests sent,
\* raised = an exception leaves the function
send_healthcheck(healthcheck_url, resp) ==
  IF ~Truthy(healthcheck_url)
  THEN [exit |-> TRUE, raised |-> FALSE, fired |-> 0, outcome |-> "url_not_set"]
  ELSE IF resp.kind = "RequestException"
  THEN [exit |-> FALSE, raised |-> FALSE, fired |-> 1, outcome |-> "transport_fault"]
  ELSE IF resp.status_code = 200
  THEN [exit |-> FALSE, raised |-> FALSE, fired |-> 1, outcome |-> "success"]
  ELSE [exit |-> FALSE, raised |-> FALSE, fired |-> 1, outcome |-> "bad_status"]

(* ------------------------ the process ---------------------------------- *)
VARIABLES
  pc,           \* position in main: "start", "checking", "print_results",
                \* "print_summary", "finally", "sys_exit", "exited"
  file,         \* config.yaml as found on disk
  env_url,      \* os.environ's HEALTHCHECK_URL (PyNone when not set)
  config,       \* main's config
  results,      \* main's results
  exit_code,    \* main's exit_code
  pending,      \* the exception in flight when the finally clause is entered
  injected,     \* where the environment made a statement of the try block raise
  checked,      \* number of check_domain calls started
  report,       \* what print_results and print_summary have printed
  requests,     \* number of requests.get calls made
  env_reads,    \* number of os.getenv calls made
  hc_outcome,   \* what send_healthcheck printed
  exit_status,  \* the process's exit status, -1 while it runs
  exit_via,     \* "running", "SystemExit", or "uncaught" (traceback)
  cd_in,        \* arguments of the check_domain call under study
  cd_out        \* its return value

vars == <<pc, file, env_url, config, results, exit_code, pending, injected, checked,
          report, requests, env_reads, hc_outcome, exit_status, exit_via, cd_in, cd_out>>

NoReport == [stage |-> "none", blocks |-> <<>>, total |-> 0, valid |-> 0, invalid |-> 0]

NoCall == [domain |-> PyStr(<<>>), min_expiry_days |-> PyInt(0),
           s |-> [raises |-> TRUE, errors |-> <<>>, recommendations |-> <<>>,
                  notifications |-> <<>>, expires |-> [kind |-> "noattr", t |-> 0]],
           now1 |-> 0, now2 |-> 0, interrupt |-> FALSE, called |-> FALSE]

NoReturn == [exc |-> FALSE, result |-> NoResult]

(* ------------------------ inputs ---------------------------------------- *)
DomainA == PyStr(<<"a">>)
DomainB == PyStr(<<" ", "b", "\n">>)

\* entries a domains list may hold: two domains, "", blank, and a number
DomainPool == {DomainA, DomainB, PyStr(<<>>), PyStr(<<" ", "\t">>), PyInt(7)}

RECURSIVE SeqsUpTo(_, _)
SeqsUpTo(S, n) ==
  IF n = 0 THEN {<<>>}
  ELSE LET shorter == SeqsUpTo(S, n - 1)
       IN shorter \cup {Append(q, x) : q \in {r \in shorter : Len(r) = n - 1}, x \in S}

DomainsValues == {PyList(q) : q \in SeqsUpTo(DomainPool, MaxDomains)} \cup {PyNotList}
MinExpiryValues == {PyInt(-1), PyInt(0), PyInt(1), PyStr(<<"1">>)}
HealthcheckValues == {PyBool(TRUE), PyBool(FALSE), PyStr(<<"y">>)}

DictFile(keys, d, m, h) ==
  [state |-> "dict", keys |-> keys, domains |-> d, min_expiry_days |-> m,
   healthcheck_enabled |-> h]

BaseDomains == PyList(<<DomainA>>)

ConfigFiles ==
  \* no file, a file that is not YAML, YAML that is not a mapping
  {[state |-> st, keys |-> {}, domains |-> PyNotList, min_expiry_days |-> PyInt(0),
    healthcheck_enabled |-> PyBool(FALSE)] : st \in {"missing", "bad_yaml", "not_dict"}}
  \cup
  \* all three keys present
  {DictFile(ConfigKeys, d, m, h) :
     d \in DomainsValues, m \in MinExpiryValues, h \in HealthcheckValues}
  \cup
  \* keys left out (defaults apply), an unknown key, a bool as min_expiry_days
  {DictFile(ks, BaseDomains, PyInt(1), PyBool(TRUE)) :
     ks \in {{"domains"}, {"domains", "healthcheck_enabled"}, {},
             {"domains", "min_expiry_days", "healthcheck_enabled", "verbose"}}}
  \cup
  {DictFile(ConfigKeys, BaseDomains, PyBool(TRUE), PyBool(FALSE))}

EnvValues == {PyNone, PyStr(<<>>), PyStr(<<"h">>)}

\* the engine outcomes the batch is run against
BatchOutcomes ==
  {s \in EngineOutcomes :
     /\ s.recommendations = <<>> <=> s.errors = <<>>
     /\ s.expires.kind = "date" => s.expires.t \in {0, MaxExpiry}}

(* ------------------------ main (lines 195-228) -------------------------- *)
Init ==
  /\ pc = "start"
  /\ file \in ConfigFiles
  /\ env_url \in EnvValues
  /\ config = NoConfig
  /\ results = <<>>
  /\ exit_code = 0
  /\ pending = "none"
  /\ injected = "none"
  /\ checked = 0
  /\ report = NoReport
  /\ requests = 0
  /\ env_reads = 0
  /\ hc_outcome = "none"
  /\ exit_status = -1
  /\ exit_via = "running"
  /\ cd_in = NoCall
  /\ cd_out = NoReturn

\* lines 199-208: load_config, exit_code = 0, results = []
Main_LoadConfig ==
  /\ pc = "start"
  /\ LET l == load_config(file)
     IN IF l.exit
        THEN /\ pc' = "exited"
             /\ exit_status' = l.code
             /\ exit_via' = "SystemExit"
             /\ UNCHANGED <<config, exit_code, results>>
        ELSE /\ pc' = "checking"
             /\ config' = l.config
             /\ exit_code' = 0
             /\ results' = <<>>
             /\ UNCHANGED <<exit_status, exit_via>>
  /\ UNCHANGED <<file, env_url, pending, injected, checked, report, requests,
                 env_reads, hc_outcome, cd_in, cd_out>>

\* lines 209-211: one iteration of the loop over config.domains
Main_CheckDomain ==
  /\ pc = "checking"
  /\ Len(results) < Len(config.domains)
  /\ \E s \in BatchOutcomes, now1 \in 0..MaxNow, drift \in 0..MaxDrift,
        interrupt \in BOOLEAN :
       LET domain == config.domains[Len(results) + 1]
           r == check_domain(domain, config.min_expiry_days, s, now1, now1 + drift,
                             interrupt)
       IN /\ checked' = checked + 1
          /\ injected' = IF interrupt THEN "checking" ELSE injected
          /\ IF r.exc
             THEN /\ pending' = "fault"
                  /\ pc' = "finally"
                  /\ UNCHANGED results
             ELSE /\ results' = Append(results, r.result)
                  /\ pc' = IF Len(results') = Len(config.domains)
                           THEN "print_results" ELSE "checking"
                  /\ UNCHANGED pending
  /\ UNCHANGED <<file, env_url, config, exit_code, report, requests, env_reads,
                 hc_outcome, exit_status, exit_via, cd_in, cd_out>>

\* line 214: print_results(results); fails: one of its statements raises
Main_PrintResults ==
  /\ pc = "print_results"
  /\ \E fails \in BOOLEAN :
       IF fails
       THEN /\ pending' = "fault"
            /\ injected' = "print_results"
            /\ report' = [report EXCEPT !.stage = "results_aborted"]
            /\ pc' = "finally"
       ELSE /\ report' = [report EXCEPT !.stage = "results",
                                        !.blocks = print_results(results)]
            /\ pc' = "print_summary"
            /\ UNCHANGED <<pending, injected>>
  /\ UNCHANGED <<file, env_url, config, results, exit_code, checked, requests,
                 env_reads, hc_outcome, exit_status, exit_via, cd_in, cd_out>>

\* lines 217-221: print_summary(results), then exit_code = 1 if any is invalid
Main_PrintSummary ==
  /\ pc = "print_summary"
  /\ \E fails \in BOOLEAN :
       IF fails
       THEN /\ pending' = "fault"
            /\ injected' = "print_summary"
            /\ report' = [report EXCEPT !.stage = "summary_aborted"]
            /\ UNCHANGED exit_code
       ELSE /\ LET c == print_summary(results)
               IN report' = [report EXCEPT !.stage = "summary", !.total = c.total,
                                           !.valid = c.valid, !.invalid = c.invalid]
            /\ exit_code' = IF AnyInvalid(results) THEN 1 ELSE exit_code
            /\ UNCHANGED <<pending, injected>>
  /\ pc' = "finally"
  /\ UNCHANGED <<file, env_url, config, results, checked, requests, env_reads,
                 hc_outcome, exit_status, exit_via, cd_in, cd_out>>

\* line 225 with the test dropped
HealthcheckWanted_Always(c) == TRUE

\* line 225: if config.healthcheck_enabled
HealthcheckWanted(c) == c.healthcheck_enabled

\* lines 223-226: the finally clause up to send_healthcheck's return
Main_Finally ==
  /\ pc = "finally"
  /\ IF HealthcheckWanted(config)
     THEN \E resp \in Responses :
            LET h == send_healthcheck(env_url, resp)
            IN /\ env_reads' = env_reads + 1
               /\ requests' = requests + h.fired
               /\ hc_outcome' = h.outcome
               /\ IF h.exit
                  THEN /\ pc' = "exited"
                       /\ exit_status' = 1
                       /\ exit_via' = "SystemExit"
                       /\ pending' = "none"
                  ELSE IF h.raised
                  THEN /\ pc' = "exited"
                       /\ exit_status' = 1
                       /\ exit_via' = "uncaught"
                       /\ pending' = "fault"
                  ELSE /\ pc' = "sys_exit"
                       /\ UNCHANGED <<exit_status, exit_via, pending>>
     ELSE /\ pc' = "sys_exit"
          /\ UNCHANGED <<env_reads, requests, hc_outcome, exit_status, exit_via, pending>>
  /\ UNCHANGED <<file, env_url, config, results, exit_code, injected, checked,
                 report, cd_in, cd_out>>

\* line 228: sys.exit(exit_code); the SystemExit replaces an exception in flight
Main_SysExit ==
  /\ pc = "sys_exit"
  /\ pc' = "exited"
  /\ exit_status' = exit_code
  /\ exit_via' = "SystemExit"
  /\ pending' = "none"
  /\ UNCHANGED <<file, env_url, config, results, exit_code, injected, checked,
                 report, requests, env_reads, hc_outcome, cd_in, cd_out>>

Next ==
  \/ Main_LoadConfig
  \/ Main_CheckDomain
  \/ Main_PrintResults
  \/ Main_PrintSummary
  \/ Main_Finally
  \/ Main_SysExit

Spec == Init /\ [][Next]_vars

(* ------------------------ check_domain on its own ----------------------- *)
CallInputs ==
  {[domain |-> d, min_expiry_days |-> m, s |-> s, now1 |-> n, now2 |-> n + k,
    interrupt |-> i, called |-> FALSE] :
     d \in {DomainA, DomainB},
     m \in {PyInt(0), PyInt(1), PyBool(TRUE), PyInt(DefaultMinExpiryDays)},
     s \in EngineOutcomes, n \in 0..MaxNow, k \in 0..MaxDrift, i \in BOOLEAN}

InitCheckDomain ==
  /\ pc = "check_domain"
  /\ file = DictFile(ConfigKeys, BaseDomains, PyInt(0), PyBool(FALSE))
  /\ env_url = PyNone
  /\ config = NoConfig
  /\ results = <<>>
  /\ exit_code = 0
  /\ pending = "none"
  /\ injected = "none"
  /\ checked = 0
  /\ report = NoReport
  /\ requests = 0
  /\ env_reads = 0
  /\ hc_outcome = "none"
  /\ exit_status = -1
  /\ exit_via = "running"
  /\ cd_in \in CallInputs
  /\ cd_out = NoReturn

\* one call of check_domain with the arguments cd_in
Call_check_domain ==
  /\ pc = "check_domain"
  /\ ~cd_in.called
  /\ cd_in' = [cd_in EXCEPT !.called = TRUE]
  /\ cd_out' = check_domain(cd_in.domain, cd_in.min_expiry_days, cd_in.s,
                            cd_in.now1, cd_in.now2, cd_in.interrupt)
  /\ UNCHANGED <<pc, file, env_url, config, results, exit_code, pending, injected,
                 checked, report, requests, env_reads, hc_outcome, exit_status,
                 exit_via>>

NextCheckDomain == Call_check_domain

SpecCheckDomain == InitCheckDomain /\ [][NextCheckDomain]_vars

(* ------------------------ properties ------------------------------------ *)
Loaded == pc \notin {"start", "check_domain"} /\ config # NoConfig
NumDomains == Len(config.domains)
AllValid == Len(results) = NumDomains /\ \A i \in 1..Len(results) : results[i].is_valid
UrlMissing == ~Truthy(env_url)
InTry == pc \in {"checking", "print_results", "print_summary"}

\* C1: a run that got past configuration loading (and whose liveness step is
\* not itself the fatal missing-URL case) exits with 0 exactly when no domain
\* result is invalid, and with 1 when some result is invalid, on every path.
C1_ExitCodeReflectsBatch ==
  (pc = "exited" /\ Loaded /\ ~(config.healthcheck_enabled /\ UrlMissing))
    => /\ exit_status = 0 <=> ~AnyInvalid(results)
       /\ AnyInvalid(results) => exit_status = 1

\* C2: after an unexpected fault in checking or reporting the liveness attempt
\* is made (when enabled) and the process then ends through that fault, not
\* through a normal exit.
C2_FaultDeterminesExit ==
  (pc = "exited" /\ Loaded /\ injected # "none"
     /\ ~(config.healthcheck_enabled /\ UrlMissing))
    => /\ config.healthcheck_enabled => requests = 1
       /\ exit_via = "uncaught"

\* C3: with the liveness signal enabled and its URL set, no request is made
\* while checking and reporting are under way, never more than one is made, and
\* exactly one has been made when the process has exited, on every exit path.
C3_ExactlyOneLivenessRequest ==
  (Loaded /\ config.healthcheck_enabled /\ ~UrlMissing)
    => /\ requests <= 1
       /\ (InTry \/ pc = "finally") => requests = 0
       /\ pc \in {"sys_exit", "exited"} => requests = 1

C3_Witness ==
  /\ pc = "exited" /\ Loaded /\ config.healthcheck_enabled /\ ~UrlMissing
  /\ injected = "checking" /\ requests = 1

C3_WitnessInvalid ==
  /\ pc = "exited" /\ Loaded /\ config.healthcheck_enabled /\ ~UrlMissing
  /\ injected = "none" /\ AnyInvalid(results) /\ requests = 1

\* the case C4 is about: no fault, no baseline error, expiry on the threshold
OnBoundary ==
  /\ cd_in.called /\ ~cd_in.interrupt /\ ~cd_in.s.raises
  /\ cd_in.s.errors = <<>>
  /\ cd_in.s.expires.kind = "date"
  /\ cd_in.s.expires.t = cd_in.now1 + cd_in.min_expiry_days.n * TicksPerDay

JustBelowBoundary ==
  /\ cd_in.called /\ ~cd_in.interrupt /\ ~cd_in.s.raises
  /\ cd_in.s.errors = <<>>
  /\ cd_in.s.expires.kind = "date"
  /\ cd_in.s.expires.t + 1 = cd_in.now1 + cd_in.min_expiry_days.n * TicksPerDay

\* C4 as stated: a declared expiry equal to now + min_expiry_days gives an
\* invalid result whose errors are exactly one expiry_too_soon finding.
C4_BoundaryIsNonCompliant ==
  OnBoundary
    => /\ ~cd_out.result.is_valid
       /\ Len(cd_out.result.errors) = 1
       /\ cd_out.result.errors[1].code = "expiry_too_soon"

\* C4 amended: a declared expiry equal to now + min_expiry_days gives a valid
\* result with no errors; one tick earlier gives an invalid result whose
\* errors are exactly one expiry_too_soon finding.
C4_BoundaryIsCompliant ==
  /\ OnBoundary
       => /\ cd_out.result.is_valid
          /\ cd_out.result.errors = <<>>
          /\ ~cd_out.result.has_error
  /\ JustBelowBoundary
       => /\ ~cd_out.result.is_valid
          /\ Len(cd_out.result.errors) = 1
          /\ cd_out.result.errors[1].code = "expiry_too_soon"
          /\ cd_out.result.errors[1].line = 0

C4_Witness == OnBoundary /\ cd_in.min_expiry_days.n = 1 /\ cd_out.result.is_valid

\* C5: the results are those of the configured domains in order, and unless a
\* statement of the loop was interrupted the loop ends with one result per
\* configured domain; an engine fault never ends it.
C5_OneResultPerDomain ==
  Loaded
    => /\ Len(results) <= NumDomains
       /\ \A i \in 1..Len(results) : results[i].domain = config.domains[i]
       /\ (pc # "checking" /\ injected # "checking") => Len(results) = NumDomains
       /\ pc = "checking" => Len(results) < NumDomains
       /\ checked = Len(results) + (IF injected = "checking" THEN 1 ELSE 0)

C5_Witness ==
  /\ pc = "exited" /\ Loaded /\ injected = "none"
  /\ Len(results) = 2
  /\ results[1].has_error /\ ~results[2].has_error
  /\ results[1].domain # results[2].domain

\* the engine faulted inside the guarded section of the call under study
EngineFaulted ==
  cd_in.called /\ ~cd_in.interrupt
    /\ (cd_in.s.raises \/ cd_in.s.expires.kind = "naive")

ExpiryFindings(errs) == {i \in 1..Len(errs) : errs[i].code = "expiry_too_soon"}

\* C6: a fault of the engine gives a result with the general error set, the
\* three lists empty and is_valid false; a result without a general error has
\* the baseline errors followed by at most one expiry finding and is valid
\* exactly when that list is empty.
C6_FaultResultShape ==
  (cd_in.called /\ ~cd_in.interrupt)
    => LET r == cd_out.result
       IN /\ ~cd_out.exc
          /\ r.domain = cd_in.domain
          /\ r.has_error <=> EngineFaulted
          /\ r.has_error
               => /\ r.error # ""
                  /\ r.errors = <<>>
                  /\ r.recommendations = <<>>
                  /\ r.notifications = <<>>
                  /\ ~r.is_valid
          /\ ~r.has_error
               => /\ r.is_valid <=> r.errors = <<>>
                  /\ SubSeq(r.errors, 1, Len(cd_in.s.errors)) = cd_in.s.errors
                  /\ Len(r.errors) - Len(cd_in.s.errors) \in {0, 1}
                  /\ ExpiryFindings(r.errors) \subseteq {Len(cd_in.s.errors) + 1}

C6_Witness ==
  /\ EngineFaulted
  /\ cd_in.s.expires.kind = "naive"
  /\ cd_in.s.errors # <<>> /\ cd_in.s.recommendations # <<>>
  /\ cd_out.result.has_error /\ ~cd_out.result.is_valid

\* C7: with healthcheck_enabled false no liveness request is made and
\* HEALTHCHECK_URL is never read, whatever happens in checking and reporting.
C7_DisabledMeansNoLiveness ==
  ~config.healthcheck_enabled
    => requests = 0 /\ env_reads = 0 /\ hc_outcome = "none"

C7_Witness ==
  /\ pc = "exited" /\ Loaded /\ ~config.healthcheck_enabled
  /\ ~UrlMissing /\ injected = "print_results"

\* C8 as stated: with the liveness signal enabled and no URL set, no domain
\* is checked and no report is produced.
C8_MissingUrlStopsBeforeChecking ==
  (config.healthcheck_enabled /\ UrlMissing)
    => checked = 0 /\ report.stage = "none"

\* C8 amended: with the liveness signal enabled and no URL set, the process
\* keeps running through checking and reporting and is ended only by the
\* finalization step: with exit status 1, without a liveness request, after
\* every configured domain was checked and the report printed (unless a fault
\* cut checking or reporting short).
C8_MissingUrlStopsInFinally ==
  (Loaded /\ config.healthcheck_enabled /\ UrlMissing)
    => /\ requests = 0
       /\ (InTry \/ pc = "finally") => exit_status = -1 /\ env_reads = 0
       /\ pc # "sys_exit"
       /\ pc = "exited"
            => /\ exit_status = 1
               /\ exit_via = "SystemExit"
               /\ hc_outcome = "url_not_set"
               /\ env_reads = 1
               /\ checked >= 1
               /\ injected = "none"
                    => checked = NumDomains /\ report.stage = "summary"

C8_Witness ==
  /\ pc = "exited" /\ Loaded /\ config.healthcheck_enabled /\ UrlMissing
  /\ injected = "none" /\ AllValid /\ exit_status = 1

\* the configuration faults C9 lists, read off the file
AllBlank(cs) == \A i \in 1..Len(cs) : IsSpace(cs[i])

BadDomain(d) == d.ty # "str" \/ AllBlank(d.chars)

ListedConfigFault ==
  \/ file.state \in {"missing", "bad_yaml"}
  \/ /\ file.state = "dict"
     /\ file.keys = ConfigKeys
     /\ \/ file.domains.ty = "list" /\ file.domains.items = <<>>
        \/ /\ file.domains.ty = "list"
           /\ \E i \in 1..Len(file.domains.items) : BadDomain(file.domains.items[i])
        \/ file.min_expiry_days.ty = "int" /\ file.min_expiry_days.n < 0
        \/ file.healthcheck_enabled.ty # "bool"

C10_LivenessFailsSoft ==
  hc_outcome \in {"transport_fault", "bad_status", "success"}
    => /\ pc \in {"sys_exit", "exited"}
       /\ exit_via # "uncaught"
       /\ exit_code = (IF report.stage = "summary" /\ AnyInvalid(results) THEN 1 ELSE 0)
       /\ pc = "exited" => exit_status = exit_code /\ exit_via = "SystemExit"

C10_Witness ==
  /\ pc = "exited" /\ hc_outcome = "transport_fault"
  /\ injected = "none" /\ AllValid /\ exit_status = 0

C10_WitnessBadStatus ==
  /\ pc = "exited" /\ hc_outcome = "bad_status"
  /\ injected = "none" /\ AnyInvalid(results) /\ exit_status = 1

====
